---------------------------- MODULE Spec2Model ----------------------------
(***************************************************************************)
(* Model of the STUN attribute core of src/errors.go: the decode-error     *)
(* taxonomy (DecodeErr, DecodeErrPlace), the attribute type registry       *)
(* (AttrType, attrNames), RawAttribute (AddTo, Equal), the attribute list  *)
(* (Attributes.Get) and the message accessor (Message.Get).                *)
(*                                                                         *)
(* Go values are modelled as follows.                                      *)
(*   string          a TLA+ string, + is \o                                *)
(*   []byte          a sequence of bytes; the nil slice and the empty      *)
(*                   slice are both << >> (the code reads a slice only     *)
(*                   through len and range, which agree on the two)        *)
(*   struct          a record with the struct's field names                *)
(*   error           a string; the nil error is Nil                        *)
(*   *DecodeErr      the DecodeErr value pointed to                        *)
(*                                                                         *)
(* Every operation is a pure function of its receiver and arguments except *)
(* RawAttribute.AddTo, which changes the message.  The state holds the     *)
(* receivers (m, a, t, e), the operation last called (op), its argument    *)
(* (arg), its result (ret) and the arguments of the last m.Add call (add). *)
(***************************************************************************)
EXTENDS Integers, Sequences, FiniteSets, TLC

VARIABLES m, a, t, e, op, arg, ret, add

vars == <<m, a, t, e, op, arg, ret, add>>

\* The nil error and the absent argument or result.
Nil == "nil"

(***************************************************************************)
(* Decode error taxonomy, src/errors.go lines 12-63.                       *)
(***************************************************************************)

\* Parent, Children and Message texts the decoder's callers use.
ParentNames == {"message", "attribute", "cookie"}

ChildrenNames == {"cookie", "message", "USERNAME"}

MessageTexts == {"", "bad length", "cookie"}

DecodeErrPlace == [Parent : ParentNames, Children : ChildrenNames]

DecodeErr == [Place : DecodeErrPlace, Message : MessageTexts]

\* DecodeErr{} before any error is built: not a state of the error specification.
NoDecodeErr == [Place |-> [Parent |-> "", Children |-> ""], Message |-> ""]

\* func (e DecodeErr) IsInvalidCookie() bool
IsInvalidCookie_ParentOnly(err) == err.Place.Parent = "message"

IsInvalidCookie(err) == err.Place = [Parent |-> "message", Children |-> "cookie"]

\* func (e DecodeErr) IsPlaceParent(p string) bool
IsPlaceParent(err, p) == err.Place.Parent = p

\* func (e DecodeErr) IsPlaceChildren(c string) bool
IsPlaceChildren(err, c) == err.Place.Children = c

\* func (e DecodeErr) IsPlace(p DecodeErrPlace) bool
IsPlace_ParentOnly(err, p) == err.Place.Parent = p.Parent

IsPlace(err, p) == err.Place = p

\* func (p DecodeErrPlace) String() string
PlaceString(p) == p.Parent \o "/" \o p.Children

\* func (e DecodeErr) Error() string
ErrorString(err) == "BadFormat for " \o PlaceString(err.Place) \o ": " \o err.Message

\* func newDecodeErr(parent, children, message string) *DecodeErr
newDecodeErr(parent, children, message) ==
    [Place |-> [Parent |-> parent, Children |-> children], Message |-> message]

\* func newAttrDecodeErr(children, message string) *DecodeErr
newAttrDecodeErr_ParentFromChildren(children, message) ==
    newDecodeErr(children, children, message)

newAttrDecodeErr(children, message) == newDecodeErr("attribute", children, message)

(***************************************************************************)
(* The receivers a specification does not use keep these values.           *)
(***************************************************************************)
NoAttribute == [Type |-> 0, Length |-> 0, Value |-> << >>]

NoMessage == [Attributes |-> << >>, Raw |-> << >>]

NoAdd == [t |-> 0, v |-> << >>, called |-> FALSE]

(***************************************************************************)
(* Specification of the decode-error taxonomy: e is any DecodeErr, the     *)
(* constructors replace it and the predicates and renderings read it.      *)
(***************************************************************************)
InitErr ==
    /\ e \in DecodeErr
    /\ m = NoMessage
    /\ a = NoAttribute
    /\ t = 0
    /\ op = "init"
    /\ arg = Nil
    /\ ret = Nil
    /\ add = NoAdd

CallNewDecodeErr ==
    \E parent \in ParentNames, children \in ChildrenNames, message \in MessageTexts :
        /\ e' = newDecodeErr(parent, children, message)
        /\ op' = "newDecodeErr"
        /\ arg' = [parent |-> parent, children |-> children, message |-> message]
        /\ ret' = e'
        /\ UNCHANGED <<m, a, t, add>>

CallNewAttrDecodeErr ==
    \E children \in ChildrenNames, message \in MessageTexts :
        /\ e' = newAttrDecodeErr(children, message)
        /\ op' = "newAttrDecodeErr"
        /\ arg' = [children |-> children, message |-> message]
        /\ ret' = e'
        /\ UNCHANGED <<m, a, t, add>>

CallIsInvalidCookie ==
    /\ op' = "IsInvalidCookie"
    /\ arg' = Nil
    /\ ret' = IsInvalidCookie(e)
    /\ UNCHANGED <<m, a, t, e, add>>

CallIsPlaceParent ==
    \E p \in ParentNames :
        /\ op' = "IsPlaceParent"
        /\ arg' = p
        /\ ret' = IsPlaceParent(e, p)
        /\ UNCHANGED <<m, a, t, e, add>>

CallIsPlaceChildren ==
    \E c \in ChildrenNames :
        /\ op' = "IsPlaceChildren"
        /\ arg' = c
        /\ ret' = IsPlaceChildren(e, c)
        /\ UNCHANGED <<m, a, t, e, add>>

CallIsPlace ==
    \E p \in DecodeErrPlace :
        /\ op' = "IsPlace"
        /\ arg' = p
        /\ ret' = IsPlace(e, p)
        /\ UNCHANGED <<m, a, t, e, add>>

CallPlaceString ==
    /\ op' = "DecodeErrPlace.String"
    /\ arg' = Nil
    /\ ret' = PlaceString(e.Place)
    /\ UNCHANGED <<m, a, t, e, add>>

CallError ==
    /\ op' = "DecodeErr.Error"
    /\ arg' = Nil
    /\ ret' = ErrorString(e)
    /\ UNCHANGED <<m, a, t, e, add>>

NextErr ==
    \/ CallNewDecodeErr
    \/ CallNewAttrDecodeErr
    \/ CallIsInvalidCookie
    \/ CallIsPlaceParent
    \/ CallIsPlaceChildren
    \/ CallIsPlace
    \/ CallPlaceString
    \/ CallError

SpecErr == InitErr /\ [][NextErr]_vars


\* C8: IsInvalidCookie answers true exactly when the place is message/cookie;
\* a match of only one of the two fields answers false, and two errors with
\* the same place get the same answer whatever their Message.
C8_IsInvalidCookieIffMessageCookie ==
    op = "IsInvalidCookie" =>
        /\ ret = (e.Place.Parent = "message" /\ e.Place.Children = "cookie")
        /\ \A x \in DecodeErr : x.Place = e.Place => IsInvalidCookie(x) = ret

\* C8 case: the parent is "message", the children is not "cookie", the answer is false.
C8_Witness ==
    /\ op = "IsInvalidCookie"
    /\ e.Place.Parent = "message"
    /\ e.Place.Children = "message"
    /\ e.Message = "cookie"
    /\ ret = FALSE

\* C9: newAttrDecodeErr(children, message) builds the error with Parent
\* "attribute", the given Children and the given Message; the result is of
\* place parent "attribute" and place children `children`, is never an invalid
\* cookie error, and renders as "BadFormat for attribute/<children>: <message>".
C9_NewAttrDecodeErrIsAttributeScoped ==
    op = "newAttrDecodeErr" =>
        /\ e = ret
        /\ ret.Place.Parent = "attribute"
        /\ ret.Place.Children = arg.children
        /\ ret.Message = arg.message
        /\ IsPlaceParent(ret, "attribute")
        /\ IsPlaceChildren(ret, arg.children)
        /\ ~IsInvalidCookie(ret)
        /\ ErrorString(ret) = "BadFormat for attribute/" \o arg.children \o ": " \o arg.message

\* C9 case: the helper was called with children "cookie".
C9_Witness ==
    /\ op = "newAttrDecodeErr"
    /\ arg.children = "cookie"
    /\ arg.message = "bad length"
    /\ ErrorString(e) = "BadFormat for attribute/cookie: bad length"

\* C10: IsPlace(p) is the conjunction of IsPlaceParent(p.Parent) and
\* IsPlaceChildren(p.Children); IsPlaceParent depends on the error's Parent
\* alone and IsPlaceChildren on its Children alone; IsInvalidCookie is
\* IsPlace of message/cookie.
C10_PlacePredicatesConsistent ==
    /\ op = "IsPlace" =>
           ret = (IsPlaceParent(e, arg.Parent) /\ IsPlaceChildren(e, arg.Children))
    /\ op = "IsPlaceParent" =>
           \A x \in DecodeErr :
               x.Place.Parent = e.Place.Parent => IsPlaceParent(x, arg) = ret
    /\ op = "IsPlaceChildren" =>
           \A x \in DecodeErr :
               x.Place.Children = e.Place.Children => IsPlaceChildren(x, arg) = ret
    /\ op = "IsInvalidCookie" =>
           ret = IsPlace(e, [Parent |-> "message", Children |-> "cookie"])

\* C10 case: IsPlace was asked about a place with the error's parent and
\* another children, and answered false.
C10_Witness ==
    /\ op = "IsPlace"
    /\ arg.Parent = e.Place.Parent
    /\ arg.Children # e.Place.Children
    /\ ret = FALSE

(***************************************************************************)
(* Attribute type registry, src/errors.go lines 88-176.                    *)
(***************************************************************************)

\* type AttrType uint16: the largest code.
MaxUint16 == 65535

AttrType == 0 .. MaxUint16

\* Attributes from comprehension-required range (0x0000-0x7FFF).
AttrMappedAddress == 1          \* 0x0001
AttrUsername == 6               \* 0x0006
AttrMessageIntegrity == 8       \* 0x0008
AttrErrorCode == 9              \* 0x0009
AttrUnknownAttributes == 10     \* 0x000A
AttrRealm == 20                 \* 0x0014
AttrNonce == 21                 \* 0x0015
AttrXORMappedAddress == 32      \* 0x0020

\* Attributes from comprehension-optional range (0x8000-0xFFFF).
AttrSoftware == 32802           \* 0x8022
AttrAlternateServer == 32803    \* 0x8023
AttrFingerprint == 32808        \* 0x8028

\* Attributes from RFC 5245 ICE.
AttrPriority == 36              \* 0x0024
AttrUseCandidate == 37          \* 0x0025
AttrICEControlled == 32809      \* 0x8029
AttrICEControlling == 32810     \* 0x802A

\* Attributes from RFC 5766 TURN.
AttrChannelNumber == 12         \* 0x000C
AttrLifetime == 13              \* 0x000D
AttrXORPeerAddress == 18        \* 0x0012
AttrData == 19                  \* 0x0013
AttrXORRelayedAddress == 22     \* 0x0016
AttrEvenPort == 24              \* 0x0018
AttrRequestedTransport == 25    \* 0x0019
AttrDontFragment == 26          \* 0x001A
AttrReservationToken == 34      \* 0x0022

\* Attributes from An Origin Attribute for the STUN Protocol.
AttrOrigin == 32815             \* 0x802F

\* func (t AttrType) Value() uint16
Value(x) == x % (MaxUint16 + 1)

\* var attrNames = map[AttrType]string{...}
attrNames ==
    (AttrMappedAddress :> "MAPPED-ADDRESS") @@
    (AttrUsername :> "USERNAME") @@
    (AttrErrorCode :> "ERROR-CODE") @@
    (AttrMessageIntegrity :> "MESSAGE-INTEGRITY") @@
    (AttrUnknownAttributes :> "UNKNOWN-ATTRIBUTES") @@
    (AttrRealm :> "REALM") @@
    (AttrNonce :> "NONCE") @@
    (AttrXORMappedAddress :> "XOR-MAPPED-ADDRESS") @@
    (AttrSoftware :> "SOFTWARE") @@
    (AttrAlternateServer :> "ALTERNATE-SERVER") @@
    (AttrFingerprint :> "FINGERPRINT") @@
    (AttrPriority :> "PRIORITY") @@
    (AttrUseCandidate :> "USE-CANDIDATE") @@
    (AttrICEControlled :> "ICE-CONTROLLED") @@
    (AttrICEControlling :> "ICE-CONTROLLING") @@
    (AttrChannelNumber :> "CHANNEL-NUMBER") @@
    (AttrLifetime :> "LIFETIME") @@
    (AttrXORPeerAddress :> "XOR-PEER-ADDRESS") @@
    (AttrData :> "DATA") @@
    (AttrXORRelayedAddress :> "XOR-RELAYED-ADDRESS") @@
    (AttrEvenPort :> "EVEN-PORT") @@
    (AttrRequestedTransport :> "REQUESTED-TRANSPORT") @@
    (AttrDontFragment :> "DONT-FRAGMENT") @@
    (AttrReservationToken :> "RESERVATION-TOKEN") @@
    (AttrOrigin :> "ORIGIN")

\* The digits strconv.FormatUint writes: "0123456789abcdefghijklmnopqrstuvwxyz",
\* of which base 16 uses the first sixteen.
digits ==
    <<"0", "1", "2", "3", "4", "5", "6", "7", "8", "9", "a", "b", "c", "d", "e", "f">>

\* strconv.FormatUint(n, base): the digits of n in the base, most significant
\* first, no sign, no padding; "0" for 0.
RECURSIVE FormatUint(_, _)
FormatUint(n, base) ==
    IF n < base
    THEN digits[n + 1]
    ELSE FormatUint(n \div base, base) \o digits[(n % base) + 1]

\* A registry lookup gone wrong in the way of fmt.Sprintf("0x%04x", t).
AttrTypeString_Padded(x) ==
    IF x \in DOMAIN attrNames
    THEN attrNames[x]
    ELSE "0x" \o digits[(x \div 4096) + 1] \o digits[((x \div 256) % 16) + 1]
              \o digits[((x \div 16) % 16) + 1] \o digits[(x % 16) + 1]

\* func (t AttrType) String() string
AttrTypeString(x) ==
    IF x \notin DOMAIN attrNames
    THEN "0x" \o FormatUint(x, 16)
    ELSE attrNames[x]

(***************************************************************************)
(* Specification of the registry: t is any 16-bit code.                    *)
(***************************************************************************)
InitString ==
    /\ t \in AttrType
    /\ m = NoMessage
    /\ a = NoAttribute
    /\ e = NoDecodeErr
    /\ op = "init"
    /\ arg = Nil
    /\ ret = Nil
    /\ add = NoAdd

CallAttrTypeString ==
    /\ op' = "AttrType.String"
    /\ arg' = Nil
    /\ ret' = AttrTypeString(t)
    /\ UNCHANGED <<m, a, t, e, add>>

CallValue ==
    /\ op' = "AttrType.Value"
    /\ arg' = Nil
    /\ ret' = Value(t)
    /\ UNCHANGED <<m, a, t, e, add>>

NextString ==
    \/ CallAttrTypeString
    \/ CallValue

SpecString == InitString /\ [][NextString]_vars

\* The hexadecimal digit of d in 0..15, lowercase.
HexChar(d) ==
    CASE d = 0 -> "0" [] d = 1 -> "1" [] d = 2 -> "2" [] d = 3 -> "3"
      [] d = 4 -> "4" [] d = 5 -> "5" [] d = 6 -> "6" [] d = 7 -> "7"
      [] d = 8 -> "8" [] d = 9 -> "9" [] d = 10 -> "a" [] d = 11 -> "b"
      [] d = 12 -> "c" [] d = 13 -> "d" [] d = 14 -> "e" [] d = 15 -> "f"

\* A 16-bit code in lowercase hexadecimal without zero padding: its four
\* nibbles, the leading zero nibbles dropped, the last one kept.
LowerHexNoPad(x) ==
    LET n3 == x \div 4096
        n2 == (x \div 256) % 16
        n1 == (x \div 16) % 16
        n0 == x % 16
    IN  IF n3 # 0 THEN HexChar(n3) \o HexChar(n2) \o HexChar(n1) \o HexChar(n0)
        ELSE IF n2 # 0 THEN HexChar(n2) \o HexChar(n1) \o HexChar(n0)
        ELSE IF n1 # 0 THEN HexChar(n1) \o HexChar(n0)
        ELSE HexChar(n0)

\* The registered codes, and the canonical name of each: the name written
\* beside the code's constant (ORIGIN from the attribute's own RFC).
RegisteredCodes ==
    {1, 6, 8, 9, 10, 20, 21, 32, 32802, 32803, 32808, 36, 37, 32809, 32810,
     12, 13, 18, 19, 22, 24, 25, 26, 34, 32815}

CanonicalNames ==
    (1 :> "MAPPED-ADDRESS") @@ (6 :> "USERNAME") @@ (8 :> "MESSAGE-INTEGRITY") @@
    (9 :> "ERROR-CODE") @@ (10 :> "UNKNOWN-ATTRIBUTES") @@ (20 :> "REALM") @@
    (21 :> "NONCE") @@ (32 :> "XOR-MAPPED-ADDRESS") @@ (32802 :> "SOFTWARE") @@
    (32803 :> "ALTERNATE-SERVER") @@ (32808 :> "FINGERPRINT") @@
    (36 :> "PRIORITY") @@ (37 :> "USE-CANDIDATE") @@ (32809 :> "ICE-CONTROLLED") @@
    (32810 :> "ICE-CONTROLLING") @@ (12 :> "CHANNEL-NUMBER") @@ (13 :> "LIFETIME") @@
    (18 :> "XOR-PEER-ADDRESS") @@ (19 :> "DATA") @@ (22 :> "XOR-RELAYED-ADDRESS") @@
    (24 :> "EVEN-PORT") @@ (25 :> "REQUESTED-TRANSPORT") @@ (26 :> "DONT-FRAGMENT") @@
    (34 :> "RESERVATION-TOKEN") @@ (32815 :> "ORIGIN")

\* C7: AttrType.String answers for every 16-bit code: the registry has 25
\* codes, a registered code gets its canonical name, two registered codes
\* never share a name, and an unregistered code gets "0x" and the code in
\* lowercase hexadecimal without zero padding.
C7_AttrTypeStringTotal ==
    op = "AttrType.String" =>
        /\ Cardinality(RegisteredCodes) = 25
        /\ DOMAIN attrNames = RegisteredCodes
        /\ t \in RegisteredCodes => ret = CanonicalNames[t]
        /\ t = 32802 => ret = "SOFTWARE"
        /\ t = 32815 => ret = "ORIGIN"
        /\ t \in RegisteredCodes =>
               \A u \in RegisteredCodes : u # t => AttrTypeString(u) # ret
        /\ t \notin RegisteredCodes => ret = "0x" \o LowerHexNoPad(t)
        /\ t = 4660 => ret = "0x1234"
        /\ t = 2 => ret = "0x2"
        /\ t = 0 => ret = "0x0"

\* C7 case: the unregistered code 0x0002, whose text has no zero padding.
C7_Witness ==
    /\ op = "AttrType.String"
    /\ t = 2
    /\ ret = "0x2"

(***************************************************************************)
(* RawAttribute, src/errors.go lines 178-216.                              *)
(***************************************************************************)

\* func (a RawAttribute) Equal(b RawAttribute) bool, with the Length test left out.
Equal_IgnoreLength(x, y) ==
    IF x.Type # y.Type
    THEN FALSE
    ELSE IF Len(y.Value) # Len(x.Value)
    THEN FALSE
    ELSE \A i \in 1 .. Len(x.Value) : y.Value[i] = x.Value[i]

\* Equal with the test of the two lengths weakened to len(b.Value) < len(a.Value).
Equal_PrefixOnly(x, y) ==
    IF x.Type # y.Type
    THEN FALSE
    ELSE IF x.Length # y.Length
    THEN FALSE
    ELSE IF Len(y.Value) < Len(x.Value)
    THEN FALSE
    ELSE \A i \in 1 .. Len(x.Value) : y.Value[i] = x.Value[i]

\* func (a RawAttribute) Equal(b RawAttribute) bool
\* The loop over a.Value answers false at the first index where the bytes
\* differ and true when there is none.
Equal(x, y) ==
    IF x.Type # y.Type
    THEN FALSE
    ELSE IF x.Length # y.Length
    THEN FALSE
    ELSE IF Len(y.Value) # Len(x.Value)
    THEN FALSE
    ELSE \A i \in 1 .. Len(x.Value) : y.Value[i] = x.Value[i]

\* The longest Value of the attributes Equal is called on.
MaxEqLen == 2

\* The bytes of those values ('b' and 'o').
EqBytes == {98, 111}

EqValues == UNION {[1 .. n -> EqBytes] : n \in 0 .. MaxEqLen}

\* The attributes Equal is called on: the declared Length is any value up to
\* MaxEqLen, equal to len(Value) or not.
EqAttributes ==
    [Type : {AttrUsername, AttrSoftware}, Length : 0 .. MaxEqLen, Value : EqValues]

(***************************************************************************)
(* Specification of RawAttribute.Equal: a is any attribute, each call      *)
(* compares it with any attribute b.                                       *)
(***************************************************************************)
InitEqual ==
    /\ a \in EqAttributes
    /\ m = NoMessage
    /\ t = 0
    /\ e = NoDecodeErr
    /\ op = "init"
    /\ arg = Nil
    /\ ret = Nil
    /\ add = NoAdd

CallEqual ==
    \E b \in EqAttributes :
        /\ op' = "RawAttribute.Equal"
        /\ arg' = b
        /\ ret' = Equal(a, b)
        /\ UNCHANGED <<m, a, t, e, add>>

NextEqual == CallEqual

SpecEqual == InitEqual /\ [][NextEqual]_vars

\* C5: Equal answers false for two attributes of the same Type and the same
\* Value bytes whose declared Length fields differ.
C5_EqualComparesDeclaredLength ==
    op = "RawAttribute.Equal" =>
        ((a.Type = arg.Type /\ a.Value = arg.Value /\ a.Length # arg.Length)
            => ret = FALSE)

\* C5 case: same Type, same Value, the receiver's Length is len(Value) and the
\* argument's is not.
C5_Witness ==
    /\ op = "RawAttribute.Equal"
    /\ a.Type = arg.Type
    /\ a.Value = arg.Value
    /\ a.Value = <<98, 111>>
    /\ a.Length = Len(a.Value)
    /\ arg.Length # Len(arg.Value)
    /\ ret = FALSE

\* C6: Equal is reflexive (also for an empty Value and for a Length that is
\* not len(Value)), symmetric, and false for two attributes of different Type.
C6_EqualReflexiveSymmetric ==
    op = "RawAttribute.Equal" =>
        /\ a = arg => ret = TRUE
        /\ Equal(a, a) /\ Equal(arg, arg)
        /\ ret = Equal(arg, a)
        /\ a.Type # arg.Type => ret = FALSE

\* C6 case: an attribute with an empty Value and a declared Length of 1 is
\* compared with itself.
C6_Witness ==
    /\ op = "RawAttribute.Equal"
    /\ a = arg
    /\ a.Value = << >>
    /\ a.Length = 1
    /\ ret = TRUE

(***************************************************************************)
(* Attribute list and message accessor, src/errors.go lines 72-86 and      *)
(* 193-197, 222-235.                                                       *)
(***************************************************************************)

\* RawAttribute{}: the zero value.
ZeroRawAttribute == [Type |-> 0, Length |-> 0, Value |-> << >>]

\* const ErrAttributeNotFound Error = "Attribute not found"
ErrAttributeNotFound == "Attribute not found"

\* Attributes.Get with the match remembered and the scan carried on: the
\* last attribute of the type instead of the first.
RECURSIVE GetLastFrom(_, _, _, _)
GetLastFrom(list, x, i, sofar) ==
    IF i > Len(list)
    THEN sofar
    ELSE IF list[i].Type = x
    THEN GetLastFrom(list, x, i + 1, [attr |-> list[i], found |-> TRUE])
    ELSE GetLastFrom(list, x, i + 1, sofar)

AttributesGet_LastMatch(list, x) ==
    GetLastFrom(list, x, 1, [attr |-> ZeroRawAttribute, found |-> FALSE])

\* Attributes.Get answering, when nothing matches, with the last candidate
\* of the scan instead of RawAttribute{}.
AttributesGet_StaleCandidate(list, x) ==
    IF \E i \in 1 .. Len(list) : list[i].Type = x
    THEN [attr |-> list[CHOOSE i \in 1 .. Len(list) :
                            /\ list[i].Type = x
                            /\ \A j \in 1 .. i - 1 : list[j].Type # x],
          found |-> TRUE]
    ELSE [attr |-> IF Len(list) = 0 THEN ZeroRawAttribute ELSE list[Len(list)],
          found |-> FALSE]

\* The loop of Attributes.Get from index i on: for _, candidate := range a.
RECURSIVE GetFrom(_, _, _)
GetFrom(list, x, i) ==
    IF i > Len(list)
    THEN [attr |-> ZeroRawAttribute, found |-> FALSE]
    ELSE IF list[i].Type = x
    THEN [attr |-> list[i], found |-> TRUE]
    ELSE GetFrom(list, x, i + 1)

\* func (a Attributes) Get(t AttrType) (RawAttribute, bool)
AttributesGet(list, x) == GetFrom(list, x, 1)

\* Message.Get without the test of ok.
MessageGet_NoAbsenceError(msg, x) ==
    [value |-> AttributesGet(msg.Attributes, x).attr.Value, err |-> Nil]

\* func (m *Message) Get(t AttrType) ([]byte, error)
MessageGet(msg, x) ==
    LET r == AttributesGet(msg.Attributes, x)
    IN  IF ~r.found
        THEN [value |-> << >>, err |-> ErrAttributeNotFound]
        ELSE [value |-> r.attr.Value, err |-> Nil]

\* Message.Add(t, v), which is not part of src/: it appends to the message's
\* Attributes an attribute of type t with the payload v and the Length len(v).
\* What it writes to the raw buffer is left out.
Add(msg, x, v) ==
    [msg EXCEPT !.Attributes = Append(@, [Type |-> x, Length |-> Len(v), Value |-> v])]

\* The arguments of the call m.Add(a.Type, m.Raw) in RawAttribute.AddTo.
AddToCall(attr, msg) == [t |-> attr.Type, v |-> msg.Raw, called |-> TRUE]

\* func (a *RawAttribute) AddTo(m *Message) error: the message afterwards.
AddTo(attr, msg) == Add(msg, AddToCall(attr, msg).t, AddToCall(attr, msg).v)

\* The most attributes a message holds.
MaxAttrs == 3

\* The payloads of the attributes and of the raw buffer: "", "b" and "bob".
Payloads == {<< >>, <<98>>, <<98, 111, 98>>}

\* The types of the attributes in a message; 0 is the type of RawAttribute{}.
ListTypes == {0, AttrUsername, AttrSoftware}

\* The types asked for: those and one no message holds.
GetTypes == ListTypes \cup {AttrRealm}

\* The attributes a decoder puts in a list: Length is len(Value).
ListAttributes ==
    {[Type |-> x, Length |-> Len(v), Value |-> v] : x \in ListTypes, v \in Payloads}

\* The messages: at most MaxAttrs attributes and any payload as the raw buffer.
Messages ==
    [Attributes : UNION {[1 .. n -> ListAttributes] : n \in 0 .. MaxAttrs},
     Raw : Payloads]

(***************************************************************************)
(* Specification of the message: m is any message of at most MaxAttrs      *)
(* attributes; Get and Message.Get read it, AddTo adds to it.              *)
(***************************************************************************)
Init ==
    /\ m \in Messages
    /\ a = NoAttribute
    /\ t = 0
    /\ e = NoDecodeErr
    /\ op = "init"
    /\ arg = Nil
    /\ ret = Nil
    /\ add = NoAdd

CallAttributesGet ==
    \E x \in GetTypes :
        /\ op' = "Attributes.Get"
        /\ arg' = x
        /\ ret' = AttributesGet(m.Attributes, x)
        /\ UNCHANGED <<m, a, t, e, add>>

CallMessageGet ==
    \E x \in GetTypes :
        /\ op' = "Message.Get"
        /\ arg' = x
        /\ ret' = MessageGet(m, x)
        /\ UNCHANGED <<m, a, t, e, add>>

\* AddTo is called on any attribute of ListAttributes, while the message has
\* room for one more.
CallAddTo ==
    \E x \in ListAttributes :
        /\ Len(m.Attributes) < MaxAttrs
        /\ a' = x
        /\ op' = "RawAttribute.AddTo"
        /\ arg' = m
        /\ add' = AddToCall(x, m)
        /\ m' = AddTo(x, m)
        /\ ret' = Nil
        /\ UNCHANGED <<t, e>>

Next ==
    \/ CallAttributesGet
    \/ CallMessageGet
    \/ CallAddTo

Spec == Init /\ [][Next]_vars

\* The positions of the attributes of type x in a list.
Positions(list, x) == {i \in 1 .. Len(list) : list[i].Type = x}

\* The smallest element of a non-empty set of positions.
Smallest(S) == CHOOSE i \in S : \A j \in S : i <= j

\* C1: when the list holds attributes of the type asked for, Attributes.Get
\* answers found = true with the attribute at the smallest such position,
\* whatever later attributes of the type there are.
C1_GetReturnsFirstMatch ==
    (op = "Attributes.Get" /\ Positions(m.Attributes, arg) # {}) =>
        /\ ret.found = TRUE
        /\ ret.attr = m.Attributes[Smallest(Positions(m.Attributes, arg))]

\* C1 case: two attributes of the type asked for, at positions 2 and 3, with
\* different values; the answer is the one at position 2.
C1_Witness ==
    /\ op = "Attributes.Get"
    /\ Positions(m.Attributes, arg) = {2, 3}
    /\ m.Attributes[2].Value # m.Attributes[3].Value
    /\ ret.found = TRUE
    /\ ret.attr = m.Attributes[2]

\* C2: when the list (the empty list too) holds no attribute of the type
\* asked for, Attributes.Get answers found = false with RawAttribute{}; it
\* answers found = true only when the list holds an attribute of the type.
C2_GetAbsentReturnsZero ==
    op = "Attributes.Get" =>
        /\ Positions(m.Attributes, arg) = {} =>
               (ret.found = FALSE /\ ret.attr = [Type |-> 0, Length |-> 0, Value |-> << >>])
        /\ ret.found = TRUE => \E i \in 1 .. Len(m.Attributes) : m.Attributes[i].Type = arg

\* C2 case: a list of three attributes with values, none of the type asked for.
C2_Witness ==
    /\ op = "Attributes.Get"
    /\ Len(m.Attributes) = 3
    /\ \A i \in 1 .. 3 : m.Attributes[i].Type # arg /\ m.Attributes[i].Value # << >>
    /\ ret.found = FALSE
    /\ ret.attr.Value = << >>

\* C3: Message.Get answers either no bytes and ErrAttributeNotFound, when no
\* attribute has the type asked for, or the Value of the first attribute of
\* the type and the nil error; never bytes together with an error, never
\* another error.
C3_MessageGetValueOrNotFound ==
    op = "Message.Get" =>
        /\ Positions(m.Attributes, arg) = {} =>
               ret = [value |-> << >>, err |-> "Attribute not found"]
        /\ Positions(m.Attributes, arg) # {} =>
               /\ ret.err = Nil
               /\ ret.value = m.Attributes[Smallest(Positions(m.Attributes, arg))].Value
        /\ ret.err \in {Nil, "Attribute not found"}
        /\ ret.err # Nil => ret.value = << >>

\* C3 case: the message holds {Type: AttrUsername, Value: "bob"} after another
\* attribute and before a second USERNAME; Message.Get(AttrUsername) answers "bob".
C3_Witness ==
    /\ op = "Message.Get"
    /\ arg = AttrUsername
    /\ Len(m.Attributes) = 3
    /\ m.Attributes[1].Type # AttrUsername
    /\ m.Attributes[2] = [Type |-> AttrUsername, Length |-> 3, Value |-> <<98, 111, 98>>]
    /\ m.Attributes[3] = [Type |-> AttrUsername, Length |-> 1, Value |-> <<98>>]
    /\ ret = [value |-> <<98, 111, 98>>, err |-> Nil]

\* C4: after a.AddTo(m) the attribute added to m carries a's Type and a's
\* Value: the call to m.Add is given a.Type and a.Value, and the attribute the
\* message gained has them.
C4_AddToAddsOwnValue ==
    op = "RawAttribute.AddTo" =>
        /\ add.t = a.Type
        /\ add.v = a.Value
        /\ m.Attributes[Len(m.Attributes)].Type = a.Type
        /\ m.Attributes[Len(m.Attributes)].Value = a.Value

=============================================================================
